---- MODULE Spec2Model ----
(***************************************************************************)
(* Model of z3v_official.py: the batch/single driver that runs background  *)
(* removal, the Hunyuan3D shape pipeline and the paint pipeline on each    *)
(* input image and verifies the paint output.                              *)
(*                                                                         *)
(* Strings and file contents are sequences of byte / code-point values     *)
(* (b"glTF" is <<103, 108, 84, 70>>); a path is the sequence of its        *)
(* components, each component a sequence of code points.                   *)
(***************************************************************************)
EXTENDS Integers, Sequences, FiniteSets, TLC

\* ---------------------------------------------------------------- bounds
\* Largest number of entries the input directory holds at start.
MaxFiles == 3
\* Longest run of leading blanks put in front of a paint-output fixture.
MaxPad == 65

\* ------------------------------------------------------ program constants
\* looks_like_obj_text: head = f.read(64)
HeadLen == 64
\* is_valid_glb: f.read(4)
SigLen == 4

VARIABLES
    args,               \* parsed command line: remove_bg, force_remove, path
    dirs,               \* file system: the set of existing directories
    files,              \* file system: path -> contents of each regular file
    cwd,                \* the process working directory
    start_cwd,          \* the working directory the process was started in
    pc,                 \* position of main()
    images,             \* main's list of images to process
    idx,                \* 1-based position of the for loop in images
    old_cwd,            \* main's local old_cwd
    input_for_model,    \* main's local input_for_model
    image,              \* main's local image (its mode), "" while unbound
    pipeline_shapegen,  \* handle of the shape pipeline, 0 while unbound
    paint_pipeline,     \* handle of the paint pipeline, 0 while unbound
    built,              \* number of constructions of each pipeline
    scans,              \* number of calls of collect_images
    rembg_calls,        \* number of runs of the background-removal model
    jobs,               \* per image: stage reached and number of attempts
    log                 \* the console output, one record per print

vars == <<args, dirs, files, cwd, start_cwd, pc, images, idx, old_cwd,
          input_for_model, image, pipeline_shapegen, paint_pipeline, built,
          scans, rembg_calls, jobs, log>>

\* ------------------------------------------------------- byte literals
GLTF == <<103, 108, 84, 70>>                      \* b"glTF"
MTLLIB == <<109, 116, 108, 108, 105, 98>>         \* b"mtllib"
HASH == <<35>>                                    \* b"#"
O_SP == <<111, 32>>                               \* b"o "
V_SP == <<118, 32>>                               \* b"v "
\* bytes.lstrip() strips ASCII whitespace: \t \n \v \f \r and space
Whitespace == {9, 10, 11, 12, 13, 32}

DOT_PNG == <<46, 112, 110, 103>>                  \* ".png"
\* collect_images: exts
exts == { <<46, 112, 110, 103>>,                  \* ".png"
          <<46, 106, 112, 103>>,                  \* ".jpg"
          <<46, 106, 112, 101, 103>>,             \* ".jpeg"
          <<46, 119, 101, 98, 112>>,              \* ".webp"
          <<46, 98, 109, 112>>,                   \* ".bmp"
          <<46, 116, 105, 102>>,                  \* ".tif"
          <<46, 116, 105, 102, 102>> }            \* ".tiff"

BGREMOVED_PNG == <<95, 98, 103, 114, 101, 109, 111, 118, 101, 100,
                   46, 112, 110, 103>>            \* "_bgremoved.png"
SHAPE_GLB == <<95, 115, 104, 97, 112, 101, 46, 103, 108, 98>>
                                                  \* "_shape.glb"
TEXTURED_GLB == <<95, 116, 101, 120, 116, 117, 114, 101, 100,
                  46, 103, 108, 98>>              \* "_textured.glb"
TEXTURED_OBJ == <<95, 116, 101, 120, 116, 117, 114, 101, 100,
                  46, 111, 98, 106>>              \* "_textured.obj"

\* ------------------------------------------------------------- paths
SCRIPT_DIR == << <<97, 112, 112>> >>              \* /app
input_dir == SCRIPT_DIR \o << <<105, 110, 112, 117, 116>> >>      \* /app/input
output_dir == SCRIPT_DIR \o << <<111, 117, 116, 112, 117, 116>> >> \* /app/output
TMP_DIR == << <<116, 109, 112>> >>                \* /tmp

Min(a, b) == IF a <= b THEN a ELSE b

\* ------------------------------------------------- bytes / str methods
\* f.read(n): at most the first n bytes
Read(b, n) == SubSeq(b, 1, Min(n, Len(b)))

\* bytes.startswith(prefix)
StartsWith(b, prefix) ==
    /\ Len(b) >= Len(prefix)
    /\ SubSeq(b, 1, Len(prefix)) = prefix

\* needle in haystack (bytes containment)
Contains(b, needle) ==
    \E i \in 1..(Len(b) + 1) :
        /\ i + Len(needle) - 1 <= Len(b)
        /\ SubSeq(b, i, i + Len(needle) - 1) = needle

\* bytes.lstrip()
RECURSIVE LStrip(_)
LStrip(b) ==
    IF b # <<>> /\ Head(b) \in Whitespace THEN LStrip(Tail(b)) ELSE b

\* str.lower() on one code point, and on a string
LowerChar(c) == IF c >= 65 /\ c <= 90 THEN c + 32 ELSE c
Lower(s) == [i \in 1..Len(s) |-> LowerChar(s[i])]

\* str.rfind("."): index of the last dot, 0 when there is none (1-based)
RFindDot(s) ==
    IF \E i \in 1..Len(s) : s[i] = 46
    THEN CHOOSE i \in 1..Len(s) :
            /\ s[i] = 46
            /\ \A j \in (i + 1)..Len(s) : s[j] # 46
    ELSE 0

\* Path.name, Path.parent
Name(p) == p[Len(p)]
Parent(p) == SubSeq(p, 1, Len(p) - 1)

\* Path.suffix: from the last dot, unless the dot leads or ends the name
Suffix(p) ==
    LET n == Name(p)
        i == RFindDot(n)
    IN  IF i > 1 /\ i < Len(n) THEN SubSeq(n, i, Len(n)) ELSE <<>>

\* Path.stem: the name without its suffix
Stem(p) ==
    LET n == Name(p)
        i == RFindDot(n)
    IN  IF i > 1 /\ i < Len(n) THEN SubSeq(n, 1, i - 1) ELSE n

\* Path.exists(), Path.is_file()
Exists(p) == p \in dirs \/ p \in DOMAIN files
IsFile(p) == p \in DOMAIN files

\* order of str / Path comparison: lexicographic on code points
RECURSIVE LexLess(_, _)
LexLess(a, b) ==
    IF b = <<>> THEN FALSE
    ELSE IF a = <<>> THEN TRUE
    ELSE IF Head(a) # Head(b) THEN Head(a) < Head(b)
    ELSE LexLess(Tail(a), Tail(b))

\* sorted(paths) for paths of one directory
RECURSIVE Sorted(_)
Sorted(S) ==
    IF S = {} THEN <<>>
    ELSE LET m == CHOOSE x \in S :
                    \A y \in S \ {x} : LexLess(Name(x), Name(y))
         IN  <<m>> \o Sorted(S \ {m})

\* input_dir.iterdir(): the entries directly inside d
IterDir(d) ==
    { p \in dirs \cup DOMAIN files : Len(p) = Len(d) + 1 /\ Parent(p) = d }

\* the extension filter is dropped
Mutant_CollectKeep_AnyFile(p) == IsFile(p)

\* collect_images(input_dir)
CollectKeep(p) == IsFile(p) /\ Lower(Suffix(p)) \in exts
collect_images(d) == SelectSeq(Sorted(IterDir(d)), CollectKeep)

\* ------------------------------------------------------------ file system
\* contents of a regular file: an image (mode, transparency entry in
\* im.info, ok = PIL can open it) or raw bytes; writer = the job that wrote it
ImageFile(mode, transp) ==
    [mode |-> mode, transp |-> transp, ok |-> TRUE, bytes |-> <<>>, writer |-> 0]
OtherFile(bytes, writer) ==
    [mode |-> "", transp |-> FALSE, ok |-> FALSE, bytes |-> bytes,
     writer |-> writer]

\* files with path p (over)written with contents c
WriteFile(fs, p, c) ==
    [q \in DOMAIN fs \cup {p} |-> IF q = p THEN c ELSE fs[q]]

\* Path.replace(target): os.replace, target is overwritten when it exists
ReplaceFile(fs, p, target) ==
    [q \in (DOMAIN fs \ {p}) \cup {target} |-> IF q = target THEN fs[p] ELSE fs[q]]

\* Image.open(p) succeeds
CanOpen(p) == IsFile(p) /\ files[p].ok

\* entries the input directory may hold when the batch starts
InputUniverse ==
    { [name |-> <<97, 46, 106, 112, 103>>, isdir |-> FALSE,      \* a.jpg
       body |-> ImageFile("RGB", FALSE)],
      [name |-> <<97, 46, 112, 110, 103>>, isdir |-> FALSE,      \* a.png
       body |-> ImageFile("RGB", FALSE)],
      [name |-> <<98, 46, 80, 78, 71>>, isdir |-> FALSE,         \* b.PNG
       body |-> ImageFile("RGBA", FALSE)],
      [name |-> <<107, 46, 106, 112, 103>>, isdir |-> FALSE,     \* k.jpg
       body |-> OtherFile(<<0, 0>>, 0)],                         \* corrupt
      [name |-> <<110, 46, 116, 120, 116>>, isdir |-> FALSE,     \* n.txt
       body |-> OtherFile(<<104, 105>>, 0)],
      [name |-> <<100, 46, 112, 110, 103>>, isdir |-> TRUE,      \* d.png/
       body |-> OtherFile(<<>>, 0)] }

\* files --path may name in single-file mode, all in /tmp
SingleUniverse ==
    { [name |-> <<120, 46, 112, 110, 103>>,                      \* x.png
       body |-> ImageFile("RGB", FALSE)],
      [name |-> <<121, 46, 80, 78, 71>>,                         \* y.PNG
       body |-> ImageFile("RGBA", FALSE)],
      [name |-> <<122, 46, 119, 101, 98, 112>>,                  \* z.webp
       body |-> ImageFile("RGBA", FALSE)],
      [name |-> <<108, 46, 112, 110, 103>>,                      \* l.png
       body |-> ImageFile("LA", FALSE)],
      [name |-> <<112, 46, 112, 110, 103>>,                      \* p.png
       body |-> ImageFile("P", TRUE)],
      [name |-> <<113, 46, 112, 110, 103>>,                      \* q.png
       body |-> ImageFile("P", FALSE)],
      [name |-> <<116, 46, 116, 105, 102>>,                      \* t.tif
       body |-> ImageFile("LA", FALSE)],
      [name |-> <<107, 46, 112, 110, 103>>,                      \* k.png
       body |-> OtherFile(<<0, 0>>, 0)] }                        \* corrupt

\* values of --path
NoPath == [given |-> FALSE, abs |-> FALSE, parts |-> <<>>]        \* default None
EmptyPath == [given |-> TRUE, abs |-> FALSE, parts |-> <<>>]      \* --path ""
RelPath(parts) == [given |-> TRUE, abs |-> FALSE, parts |-> parts]
AbsPath(parts) == [given |-> TRUE, abs |-> TRUE, parts |-> parts]

\* `if args.path:` -- None and the empty string are both falsy
Truthy(p) == p.given /\ (p.abs \/ p.parts # <<>>)

\* Path(args.path).expanduser(); (Path.cwd() / single).resolve() if relative
ResolveSingle(p) == IF p.abs THEN p.parts ELSE cwd \o p.parts

Msg(tag, name) == [tag |-> tag, name |-> name]

\* the state of the process before main() runs
InitCommon ==
    /\ pc = "start"
    /\ images = <<>>
    /\ idx = 1
    /\ old_cwd = <<>>
    /\ input_for_model = <<>>
    /\ image = ""
    /\ pipeline_shapegen = 0
    /\ paint_pipeline = 0
    /\ built = [shape |-> 0, paint |-> 0]
    /\ scans = 0
    /\ rembg_calls = 0
    /\ jobs = <<>>
    /\ log = <<>>

\* batch runs: any input directory of at most MaxFiles entries, any flags
Init ==
    /\ InitCommon
    /\ start_cwd \in {SCRIPT_DIR, TMP_DIR}
    /\ cwd = start_cwd
    /\ args \in [remove_bg : BOOLEAN, force_remove : BOOLEAN,
                 path : {NoPath, EmptyPath, AbsPath(TMP_DIR),
                         RelPath(<< <<105, 110, 112, 117, 116>>,
                                    <<97, 46, 112, 110, 103>> >>)}]
    /\ \E haveIn \in BOOLEAN, haveOut \in BOOLEAN :
       \E E \in SUBSET InputUniverse :
          /\ Cardinality(E) <= MaxFiles
          /\ haveIn \/ E = {}
          /\ dirs = {SCRIPT_DIR, TMP_DIR}
                    \cup (IF haveIn THEN {input_dir} ELSE {})
                    \cup (IF haveOut THEN {output_dir} ELSE {})
                    \cup { input_dir \o <<e.name>> : e \in {x \in E : x.isdir} }
          /\ files = [p \in { input_dir \o <<e.name>> : e \in {x \in E : ~x.isdir} }
                        |-> (CHOOSE e \in E : input_dir \o <<e.name>> = p).body]

\* ------------------------------------------------------------------ main
\* parse_args, input_dir.mkdir, output_dir.mkdir
ParseArgs ==
    /\ pc = "start"
    /\ dirs' = dirs \cup {input_dir, output_dir}
    /\ pc' = "select"
    /\ UNCHANGED <<args, files, cwd, start_cwd, images, idx, old_cwd,
                   input_for_model, image, pipeline_shapegen, paint_pipeline,
                   built, scans, rembg_calls, jobs, log>>

\* decide between the single file and the input folder; stop when empty
SelectImages ==
    /\ pc = "select"
    /\ LET single == ResolveSingle(args.path)
           missing == Truthy(args.path) /\ (~Exists(single) \/ ~IsFile(single))
           found == IF Truthy(args.path) THEN <<single>>
                    ELSE collect_images(input_dir)
       IN  /\ scans' = IF Truthy(args.path) THEN scans ELSE scans + 1
           /\ IF missing
              THEN /\ log' = Append(log, Msg("ERROR --path file not found", Name(single)))
                   /\ pc' = "done"
                   /\ UNCHANGED <<images, jobs>>
              ELSE /\ images' = found
                   /\ IF found = <<>>
                      THEN /\ log' = log \o <<Msg("INFO No images found in", Name(input_dir)),
                                              Msg("INFO Put one or more images", <<>>)>>
                           /\ pc' = "done"
                           /\ UNCHANGED jobs
                      ELSE /\ jobs' = [i \in 1..Len(found) |->
                                          [stage |-> "Pending", attempts |-> 0]]
                           /\ pc' = "load_shape"
                           /\ UNCHANGED log
    /\ UNCHANGED <<args, dirs, files, cwd, start_cwd, idx, old_cwd,
                   input_for_model, image, pipeline_shapegen, paint_pipeline,
                   built, rembg_calls>>

\* Hunyuan3DDiTFlowMatchingPipeline.from_pretrained(MODEL_PATH); an exception
\* here is not handled and ends the process
LoadShapePipeline ==
    /\ pc = "load_shape"
    /\ log' = Append(log, Msg("INFO Loading shape model from", <<>>))
    /\ \E ok \in BOOLEAN :
          IF ok
          THEN /\ built' = [built EXCEPT !.shape = @ + 1]
               /\ pipeline_shapegen' = built.shape + 1
               /\ pc' = "load_paint"
          ELSE /\ pc' = "crashed"
               /\ UNCHANGED <<built, pipeline_shapegen>>
    /\ UNCHANGED <<args, dirs, files, cwd, start_cwd, images, idx, old_cwd,
                   input_for_model, image, paint_pipeline, scans, rembg_calls,
                   jobs>>

\* Hunyuan3DPaintConfig(...), Hunyuan3DPaintPipeline(conf); not handled either
LoadPaintPipeline ==
    /\ pc = "load_paint"
    /\ log' = Append(log, Msg("INFO Loading paint pipeline", <<>>))
    /\ \E ok \in BOOLEAN :
          IF ok
          THEN /\ built' = [built EXCEPT !.paint = @ + 1]
               /\ paint_pipeline' = built.paint + 1
               /\ pc' = "loop"
          ELSE /\ pc' = "crashed"
               /\ UNCHANGED <<built, paint_pipeline>>
    /\ UNCHANGED <<args, dirs, files, cwd, start_cwd, images, idx, old_cwd,
                   input_for_model, image, pipeline_shapegen, scans,
                   rembg_calls, jobs>>

\* locals of one pass of the for loop, for the image at position i
img_path(i) == images[i]
stem(i) == Stem(img_path(i))
per_item_dir(i) == output_dir \o <<stem(i)>>
bg_png(i) == per_item_dir(i) \o <<stem(i) \o BGREMOVED_PNG>>
shape_glb(i) == per_item_dir(i) \o <<stem(i) \o SHAPE_GLB>>
out_glb_maybe(i) == per_item_dir(i) \o <<stem(i) \o TEXTURED_GLB>>
out_obj(i) == per_item_dir(i) \o <<stem(i) \o TEXTURED_OBJ>>

SetStage(i, s) == [jobs EXCEPT ![i].stage = s]

\* for img_path in images: mkdir of the per-item directory, the two prints,
\* old_cwd = Path.cwd(), os.chdir(per_item_dir)
BeginJob ==
    /\ pc = "loop"
    /\ idx <= Len(images)
    /\ dirs' = dirs \cup {per_item_dir(idx)}
    /\ log' = log \o <<Msg("INFO Processing", Name(img_path(idx))),
                       Msg("INFO Output dir", Name(per_item_dir(idx)))>>
    /\ old_cwd' = cwd
    /\ cwd' = per_item_dir(idx)
    /\ jobs' = [jobs EXCEPT ![idx].attempts = @ + 1]
    /\ pc' = "bg"
    /\ UNCHANGED <<args, files, start_cwd, images, idx, input_for_model, image,
                   pipeline_shapegen, paint_pipeline, built, scans,
                   rembg_calls>>

\* the loop is exhausted: the two closing prints
LoopExit ==
    /\ pc = "loop"
    /\ idx > Len(images)
    /\ log' = log \o <<Msg("DONE Completed", <<>>),
                       Msg("INFO Outputs in", Name(output_dir))>>
    /\ pc' = "done"
    /\ UNCHANGED <<args, dirs, files, cwd, start_cwd, images, idx, old_cwd,
                   input_for_model, image, pipeline_shapegen, paint_pipeline,
                   built, scans, rembg_calls, jobs>>

\* the suffix is compared without lower()
Mutant_has_alpha_png_CaseSensitive(p) ==
    IF Suffix(p) # DOT_PNG THEN FALSE
    ELSE IF ~CanOpen(p) THEN FALSE
    ELSE \/ files[p].mode \in {"RGBA", "LA"}
         \/ files[p].transp

\* has_alpha_png(p)
has_alpha_png(p) ==
    IF Lower(Suffix(p)) # DOT_PNG THEN FALSE
    ELSE IF ~CanOpen(p) THEN FALSE                 \* except Exception
    ELSE \/ files[p].mode \in {"RGBA", "LA"}
         \/ files[p].transp

\* remove_background_to_png(src, dst_png, force); model_ok: BackgroundRemover
\* and its call return. The result: whether it raised, the path returned, and
\* the file system and model-run count it leaves.
remove_background_to_png(src, dst_png, force, model_ok, writer) ==
    IF (~force) /\ has_alpha_png(src)
    THEN [raised |-> FALSE, ret |-> src, dirs |-> dirs, files |-> files,
          calls |-> rembg_calls]
    ELSE LET made == dirs \cup {Parent(dst_png)}
         IN  IF ~CanOpen(src)                      \* Image.open(src) raises
             THEN [raised |-> TRUE, ret |-> <<>>, dirs |-> made,
                   files |-> files, calls |-> rembg_calls]
             ELSE IF ~model_ok                     \* the model raises
             THEN [raised |-> TRUE, ret |-> <<>>, dirs |-> made,
                   files |-> files, calls |-> rembg_calls + 1]
             ELSE [raised |-> FALSE, ret |-> dst_png, dirs |-> made,
                   files |-> WriteFile(files, dst_png,
                                       [ImageFile("RGBA", FALSE)
                                            EXCEPT !.writer = writer]),
                   calls |-> rembg_calls + 1]

\* try: input_for_model = img_path; the optional background removal
RemoveBg ==
    /\ pc = "bg"
    /\ IF ~args.remove_bg
       THEN /\ input_for_model' = img_path(idx)
            /\ pc' = "load"
            /\ UNCHANGED <<dirs, files, rembg_calls, jobs, log>>
       ELSE \E model_ok \in BOOLEAN :
            LET r == remove_background_to_png(img_path(idx), bg_png(idx),
                                              args.force_remove, model_ok, idx)
            IN  /\ dirs' = r.dirs
                /\ files' = r.files
                /\ rembg_calls' = r.calls
                /\ IF r.raised
                   THEN /\ input_for_model' = img_path(idx)
                        /\ pc' = "except"
                        /\ UNCHANGED <<jobs, log>>
                   ELSE /\ input_for_model' = r.ret
                        /\ log' = Append(log, Msg("OK BG removed", Name(r.ret)))
                        /\ jobs' = SetStage(idx, "BackgroundRemoved")
                        /\ pc' = "load"
    /\ UNCHANGED <<args, cwd, start_cwd, images, idx, old_cwd, image,
                   pipeline_shapegen, paint_pipeline, built, scans>>

\* a failure to open the image is swallowed and the job goes on
Mutant_LoadImageSwallows ==
    /\ pc = "load"
    /\ IF CanOpen(input_for_model)
       THEN /\ image' = "RGBA"
            /\ pc' = "shape"
       ELSE /\ pc' = "verify"
            /\ UNCHANGED image
    /\ UNCHANGED <<args, dirs, files, cwd, start_cwd, images, idx, old_cwd,
                   input_for_model, pipeline_shapegen, paint_pipeline, built,
                   scans, rembg_calls, jobs, log>>

\* image = Image.open(input_for_model); convert to RGBA unless it is RGBA
LoadImage ==
    /\ pc = "load"
    /\ IF CanOpen(input_for_model)
       THEN /\ image' = (IF files[input_for_model].mode # "RGBA"
                         THEN "RGBA" ELSE files[input_for_model].mode)
            /\ pc' = "shape"
       ELSE /\ pc' = "except"
            /\ UNCHANGED image
    /\ UNCHANGED <<args, dirs, files, cwd, start_cwd, images, idx, old_cwd,
                   input_for_model, pipeline_shapegen, paint_pipeline, built,
                   scans, rembg_calls, jobs, log>>

\* the mesh the shape stage exports: a binary GLB
ShapeMesh == GLTF \o <<2, 0, 0, 0>>

\* the shape pipeline is loaded again by every job
Mutant_ShapeStageReloads ==
    /\ pc = "shape"
    /\ built' = [built EXCEPT !.shape = @ + 1]
    /\ pipeline_shapegen' = built.shape + 1
    /\ \E ok \in BOOLEAN :
          IF ok
          THEN /\ files' = WriteFile(files, shape_glb(idx), OtherFile(ShapeMesh, idx))
               /\ log' = Append(log, Msg("OK Shape exported", Name(shape_glb(idx))))
               /\ jobs' = SetStage(idx, "ShapeGenerated")
               /\ pc' = "paint"
          ELSE /\ pc' = "except"
               /\ UNCHANGED <<files, log, jobs>>
    /\ UNCHANGED <<args, dirs, cwd, start_cwd, images, idx, old_cwd,
                   input_for_model, image, paint_pipeline, scans, rembg_calls>>

\* SHAPE: pipeline_shapegen(image=image)[0], mesh.export(shape_glb); either
\* call may raise
ShapeStage ==
    /\ pc = "shape"
    /\ \E ok \in BOOLEAN :
          IF ok
          THEN /\ files' = WriteFile(files, shape_glb(idx), OtherFile(ShapeMesh, idx))
               /\ log' = Append(log, Msg("OK Shape exported", Name(shape_glb(idx))))
               /\ jobs' = SetStage(idx, "ShapeGenerated")
               /\ pc' = "paint"
          ELSE /\ pc' = "except"
               /\ UNCHANGED <<files, log, jobs>>
    /\ UNCHANGED <<args, dirs, cwd, start_cwd, images, idx, old_cwd,
                   input_for_model, image, pipeline_shapegen, paint_pipeline,
                   built, scans, rembg_calls>>

\* PAINT: paint_pipeline(mesh_path, image_path, output_mesh_path). The call
\* raises, or returns having written one of `outputs` to output_mesh_path, or
\* returns having written nothing there.
PaintStage(outputs) ==
    /\ pc = "paint"
    /\ \E out \in {"raise", "nothing", "file"} :
          CASE out = "raise" ->
                  /\ pc' = "except"
                  /\ UNCHANGED <<files, jobs>>
            [] out = "nothing" ->
                  /\ pc' = "verify"
                  /\ jobs' = SetStage(idx, "Painted")
                  /\ UNCHANGED files
            [] out = "file" ->
                  \E b \in outputs :
                      /\ files' = WriteFile(files, out_glb_maybe(idx), OtherFile(b, idx))
                      /\ jobs' = SetStage(idx, "Painted")
                      /\ pc' = "verify"
    /\ UNCHANGED <<args, dirs, cwd, start_cwd, images, idx, old_cwd,
                   input_for_model, image, pipeline_shapegen, paint_pipeline,
                   built, scans, rembg_calls, log>>

\* only three bytes of the signature are compared
Mutant_is_valid_glb_ShortRead(p) ==
    IF ~IsFile(p) THEN FALSE
    ELSE Read(files[p].bytes, SigLen - 1) = SubSeq(GLTF, 1, SigLen - 1)

\* is_valid_glb(path)
is_valid_glb(p) ==
    IF ~IsFile(p) THEN FALSE                       \* except Exception
    ELSE Read(files[p].bytes, SigLen) = GLTF

\* the head is not stripped of leading whitespace
Mutant_looks_like_obj_text_NoStrip(p) ==
    IF ~IsFile(p) THEN FALSE
    ELSE LET head == Read(files[p].bytes, HeadLen)
         IN  \/ Contains(head, MTLLIB)
             \/ StartsWith(head, HASH)
             \/ StartsWith(head, O_SP)
             \/ StartsWith(head, V_SP)

\* looks_like_obj_text(path)
looks_like_obj_text(p) ==
    IF ~IsFile(p) THEN FALSE                       \* except Exception
    ELSE LET head == Read(files[p].bytes, HeadLen)
         IN  \/ Contains(head, MTLLIB)
             \/ StartsWith(LStrip(head), HASH)
             \/ StartsWith(LStrip(head), O_SP)
             \/ StartsWith(LStrip(head), V_SP)

\* the check of the paint output and the rename of a mislabelled OBJ
VerifyOutput ==
    /\ pc = "verify"
    /\ IF Exists(out_glb_maybe(idx))
       THEN IF is_valid_glb(out_glb_maybe(idx))
            THEN /\ log' = Append(log, Msg("OK Textured GLB exported",
                                           Name(out_glb_maybe(idx))))
                 /\ jobs' = SetStage(idx, "Accepted")
                 /\ UNCHANGED files
            ELSE IF looks_like_obj_text(out_glb_maybe(idx))
            THEN /\ files' = ReplaceFile(files, out_glb_maybe(idx), out_obj(idx))
                 /\ log' = Append(log, Msg("FIX Output was OBJ text, renamed to",
                                           Name(out_obj(idx))))
                 /\ jobs' = SetStage(idx, "Renamed")
            ELSE /\ log' = Append(log, Msg("WARN Output exists but is not valid GLB",
                                           Name(out_glb_maybe(idx))))
                 /\ jobs' = SetStage(idx, "Warned")
                 /\ UNCHANGED files
       ELSE /\ log' = Append(log, Msg("WARN output_mesh_path not found after paint",
                                      <<>>))
            /\ jobs' = SetStage(idx, "Warned")
            /\ UNCHANGED files
    /\ pc' = "finally"
    /\ UNCHANGED <<args, dirs, cwd, start_cwd, images, idx, old_cwd,
                   input_for_model, image, pipeline_shapegen, paint_pipeline,
                   built, scans, rembg_calls>>

\* the handler lets the exception escape: the process ends
Mutant_ExceptHandlerReraises ==
    /\ pc = "except"
    /\ log' = Append(log, Msg("ERROR Failed on", Name(img_path(idx))))
    /\ jobs' = SetStage(idx, "Failed")
    /\ pc' = "crashed"
    /\ UNCHANGED <<args, dirs, files, cwd, start_cwd, images, idx, old_cwd,
                   input_for_model, image, pipeline_shapegen, paint_pipeline,
                   built, scans, rembg_calls>>

\* except Exception as e: print the error with the image name
ExceptHandler ==
    /\ pc = "except"
    /\ log' = Append(log, Msg("ERROR Failed on", Name(img_path(idx))))
    /\ jobs' = SetStage(idx, "Failed")
    /\ pc' = "finally"
    /\ UNCHANGED <<args, dirs, files, cwd, start_cwd, images, idx, old_cwd,
                   input_for_model, image, pipeline_shapegen, paint_pipeline,
                   built, scans, rembg_calls>>

\* the working directory is not restored
Mutant_FinallyNoChdir ==
    /\ pc = "finally"
    /\ idx' = idx + 1
    /\ pc' = "loop"
    /\ UNCHANGED <<args, dirs, files, cwd, start_cwd, images, old_cwd,
                   input_for_model, image, pipeline_shapegen, paint_pipeline,
                   built, scans, rembg_calls, jobs, log>>

\* finally: os.chdir(old_cwd); the loop moves to the next image
Finally ==
    /\ pc = "finally"
    /\ cwd' = old_cwd
    /\ idx' = idx + 1
    /\ pc' = "loop"
    /\ UNCHANGED <<args, dirs, files, start_cwd, images, old_cwd,
                   input_for_model, image, pipeline_shapegen, paint_pipeline,
                   built, scans, rembg_calls, jobs, log>>

\* ------------------------------------------------- paint-output fixtures
Pad(n) == [i \in 1..n |-> 32]                     \* n blanks

\* what the paint stage may leave at output_mesh_path in a batch run
PaintOutputs ==
    { GLTF \o <<2, 0, 0, 0>>,                     \* a binary GLB
      HASH \o <<32>> \o MTLLIB,                   \* "# mtllib": OBJ text
      <<80, 75, 3, 4>> }                          \* neither

Bodies ==
    { <<>>,                                       \* empty file
      <<103, 108, 84>>,                           \* "glT": truncated
      GLTF,                                       \* "glTF"
      GLTF \o <<2, 0, 0, 0>>,                     \* a GLB header
      <<103, 108, 116, 102, 2>>,                  \* "gltf": wrong case
      <<71, 108, 84, 70>>,                        \* "GlTF": corrupted
      GLTF \o <<32>> \o MTLLIB,                   \* "glTF mtllib"
      HASH \o <<32, 120>>,                        \* "# x"
      O_SP \o <<120>>,                            \* "o x"
      V_SP \o <<49>>,                             \* "v 1"
      <<118, 110, 32, 49>>,                       \* "vn 1"
      <<111>>,                                    \* "o"
      MTLLIB \o <<32, 120>>,                      \* "mtllib x"
      <<102, 32, 49, 10>> \o MTLLIB,              \* "f 1\nmtllib"
      <<80, 75, 3, 4>> }                          \* "PK.."

PadLens == {0, 1, HeadLen - 6, HeadLen - 5, HeadLen - 1, HeadLen, MaxPad}

\* what the paint stage may leave at output_mesh_path in a single-file run
Fixtures ==
    { Pad(n) \o b : n \in PadLens, b \in Bodies }
    \cup { <<10, 9>> \o b : b \in Bodies }        \* "\n\t" in front

\* --------------------------------------------------------- specifications
Next ==
    \/ ParseArgs
    \/ SelectImages
    \/ LoadShapePipeline
    \/ LoadPaintPipeline
    \/ BeginJob
    \/ RemoveBg
    \/ LoadImage
    \/ ShapeStage
    \/ PaintStage(PaintOutputs)
    \/ VerifyOutput
    \/ ExceptHandler
    \/ Finally
    \/ LoopExit

Spec == Init /\ [][Next]_vars

\* single-file runs: --path names one file of /tmp, the paint stage may leave
\* any of Fixtures
InitFiles ==
    /\ InitCommon
    /\ start_cwd = SCRIPT_DIR
    /\ cwd = start_cwd
    /\ dirs = {SCRIPT_DIR, TMP_DIR, input_dir, output_dir}
    /\ files = [p \in { TMP_DIR \o <<e.name>> : e \in SingleUniverse }
                  |-> (CHOOSE e \in SingleUniverse : TMP_DIR \o <<e.name>> = p).body]
    /\ \E e \in SingleUniverse :
          args \in [remove_bg : BOOLEAN, force_remove : BOOLEAN,
                    path : {AbsPath(TMP_DIR \o <<e.name>>)}]

NextFiles ==
    \/ ParseArgs
    \/ SelectImages
    \/ LoadShapePipeline
    \/ LoadPaintPipeline
    \/ BeginJob
    \/ RemoveBg
    \/ LoadImage
    \/ ShapeStage
    \/ PaintStage(Fixtures)
    \/ VerifyOutput
    \/ ExceptHandler
    \/ Finally
    \/ LoopExit

SpecFiles == InitFiles /\ [][NextFiles]_vars

\* ------------------------------------------------------------ properties
InJob == pc \in {"bg", "load", "shape", "paint", "verify", "except", "finally"}
InLoop == InJob \/ pc = "loop"
Final == {"Accepted", "Renamed", "Warned", "Failed"}
ErrorMsg(i) == Msg("ERROR Failed on", Name(images[i]))
Logged(m) == \E k \in 1..Len(log) : log[k] = m

\* C1: partial-failure isolation. An exception raised inside the try of job i
\* is caught and logged with the image name; the process never ends inside
\* the loop; every image before the loop position has been attempted exactly
\* once, none after it has been attempted yet; and the run ends with the
\* DONE message after the last image, whatever jobs failed.
C1_FailureIsolation ==
    /\ [](/\ InLoop => ENABLED Next
          /\ pc = "crashed" => \A i \in 1..Len(jobs) : jobs[i].attempts = 0
          /\ \A i \in 1..Len(jobs) :
                /\ jobs[i].attempts =
                      (IF i < idx \/ (i = idx /\ InJob) THEN 1 ELSE 0)
                /\ jobs[i].stage = "Failed" => Logged(ErrorMsg(i))
          /\ (pc = "done" /\ jobs # <<>>) =>
                /\ idx = Len(images) + 1
                /\ log[Len(log) - 1] = Msg("DONE Completed", <<>>))
    /\ [][pc = "except" =>
             /\ pc' = "finally"
             /\ log' = Append(log, ErrorMsg(idx))]_vars

\* C1 witness: the batch is done, its first job failed and a later job was
\* still attempted and accepted.
C1_Witness ==
    /\ pc = "done"
    /\ Len(jobs) >= 2
    /\ jobs[1].stage = "Failed"
    /\ jobs[2].attempts = 1
    /\ jobs[2].stage = "Accepted"

\* C2: working-directory restoration. During a job the working directory is
\* that job's output subdirectory; outside a job (before the loop, between
\* jobs, after the loop) it is the directory the process started in, which
\* is also the old_cwd every job saved.
C2_CwdRestored ==
    /\ InJob => /\ cwd = per_item_dir(idx)
                /\ old_cwd = start_cwd
    /\ ~InJob => cwd = start_cwd

\* C2 witness: the first job failed with an exception, the loop is about to
\* start the second job and the working directory is the starting one again.
C2_Witness ==
    /\ pc = "loop"
    /\ idx = 2
    /\ Len(images) >= 2
    /\ jobs[1].stage = "Failed"
    /\ cwd = start_cwd
    /\ cwd # per_item_dir(1)

\* the source image is readable and carries alpha: mode RGBA or LA, or a
\* palette image with a transparency entry
SourceHasAlpha(p) ==
    /\ p \in DOMAIN files
    /\ files[p].ok
    /\ \/ files[p].mode \in {"RGBA", "LA"}
       \/ files[p].mode = "P" /\ files[p].transp
IsPngName(p) == Lower(Suffix(p)) = <<46, 112, 110, 103>>
BgNoOp ==
    /\ pc' = "load"
    /\ input_for_model' = images[idx]
    /\ rembg_calls' = rembg_calls
    /\ files' = files

\* C3 as stated: for every source with alpha, whatever its extension,
\* background removal without force returns the source, runs no model and
\* writes no file.
C3_AnyExtension ==
    [][(pc = "bg" /\ args.remove_bg /\ ~args.force_remove
        /\ SourceHasAlpha(images[idx])) => BgNoOp]_vars

\* C3 amended: the same, for every source with alpha whose file extension is
\* .png in any letter case.
C3_PngNoOp ==
    [][(pc = "bg" /\ args.remove_bg /\ ~args.force_remove
        /\ SourceHasAlpha(images[idx]) /\ IsPngName(images[idx])) => BgNoOp]_vars

\* C3 witness: background removal without force has just returned the source
\* itself for a PNG with alpha whose suffix is upper case; no model ran.
C3_Witness ==
    /\ pc = "load"
    /\ args.remove_bg /\ ~args.force_remove
    /\ SourceHasAlpha(images[idx])
    /\ IsPngName(images[idx])
    /\ Suffix(images[idx]) # <<46, 112, 110, 103>>
    /\ input_for_model = images[idx]
    /\ rembg_calls = 0
    /\ bg_png(idx) \notin DOMAIN files

\* byte-level reading of the two classifications
FirstFourAreGlTF(b) ==
    /\ Len(b) >= 4
    /\ b[1] = 103 /\ b[2] = 108 /\ b[3] = 84 /\ b[4] = 70
\* position of the first byte of b that is not whitespace, Len(b) + 1 if none
FirstInk(b) ==
    CHOOSE k \in 1..(Len(b) + 1) :
        /\ \A j \in 1..(k - 1) : b[j] \in {9, 10, 11, 12, 13, 32}
        /\ k <= Len(b) => b[k] \notin {9, 10, 11, 12, 13, 32}
\* the text-mesh marks within the first n bytes of b
TextMarksWithin(b, n) ==
    LET lim == IF Len(b) < n THEN Len(b) ELSE n
        k == FirstInk(b)
    IN  \/ \E i \in 1..lim :
              /\ i + 5 <= lim
              /\ b[i] = 109 /\ b[i + 1] = 116 /\ b[i + 2] = 108
              /\ b[i + 3] = 108 /\ b[i + 4] = 105 /\ b[i + 5] = 98
        \/ k <= lim /\ b[k] = 35
        \/ k + 1 <= lim /\ b[k] \in {111, 118} /\ b[k + 1] = 32
Renamed(b) ==
    /\ out_glb_maybe(idx) \notin DOMAIN files'
    /\ out_obj(idx) \in DOMAIN files'
    /\ files'[out_obj(idx)].bytes = b
    /\ \A q \in DOMAIN files \ {out_glb_maybe(idx), out_obj(idx)} :
          q \in DOMAIN files' /\ files'[q] = files[q]
    /\ log' = Append(log, Msg("FIX Output was OBJ text, renamed to",
                              Name(out_obj(idx))))
WarnedUntouched ==
    /\ files' = files
    /\ log' = Append(log, Msg("WARN Output exists but is not valid GLB",
                              Name(out_glb_maybe(idx))))

\* C4 as stated: a paint output that contains mtllib anywhere, or begins
\* with '#', 'o ' or 'v ' after leading whitespace, is renamed to .obj; one
\* that matches neither that nor the binary signature is warned about and
\* left in place.
C4_TextMeshAnywhere ==
    [][(pc = "verify" /\ out_glb_maybe(idx) \in DOMAIN files) =>
          LET b == files[out_glb_maybe(idx)].bytes
              text == TextMarksWithin(b, Len(b))
          IN  /\ text => Renamed(b)
              /\ (~text /\ ~FirstFourAreGlTF(b)) => WarnedUntouched]_vars

\* C4 amended: a paint output whose first 4 bytes are not 'glTF' is renamed
\* to .obj when its first 64 bytes contain mtllib or, stripped of leading
\* whitespace, begin with '#', 'o ' or 'v '; otherwise it is warned about and
\* left in place.
C4_TextMeshInHead ==
    [][(pc = "verify" /\ out_glb_maybe(idx) \in DOMAIN files
        /\ ~FirstFourAreGlTF(files[out_glb_maybe(idx)].bytes)) =>
          LET b == files[out_glb_maybe(idx)].bytes
              text == TextMarksWithin(b, 64)
          IN  /\ text => Renamed(b)
              /\ ~text => WarnedUntouched]_vars

\* C4 witness: a paint output with blanks in front of its mtllib line, longer
\* than the 64 bytes read, has been renamed to .obj.
C4_Witness ==
    /\ pc = "finally"
    /\ jobs[idx].stage = "Renamed"
    /\ out_glb_maybe(idx) \notin DOMAIN files
    /\ out_obj(idx) \in DOMAIN files
    /\ Len(files[out_obj(idx)].bytes) > 64
    /\ files[out_obj(idx)].bytes[1] = 32

\* C5: is_valid_glb is true of a file exactly when its first 4 bytes are
\* 'glTF'; output verification accepts such a file as it is: no file is
\* renamed or changed and the only message is the OK one.
C5_GlbSignature ==
    /\ [](\A p \in DOMAIN files :
             is_valid_glb(p) <=> FirstFourAreGlTF(files[p].bytes))
    /\ [][(pc = "verify" /\ out_glb_maybe(idx) \in DOMAIN files
           /\ FirstFourAreGlTF(files[out_glb_maybe(idx)].bytes)) =>
             /\ files' = files
             /\ log' = Append(log, Msg("OK Textured GLB exported",
                                       Name(out_glb_maybe(idx))))]_vars

\* C5 witness: a file that starts with 'glTF' and goes on with an mtllib
\* line has been accepted and is still at the .glb path.
C5_Witness ==
    /\ pc = "finally"
    /\ jobs[idx].stage = "Accepted"
    /\ out_glb_maybe(idx) \in DOMAIN files
    /\ files[out_glb_maybe(idx)].bytes =
          <<103, 108, 84, 70, 32, 109, 116, 108, 108, 105, 98>>
    /\ out_obj(idx) \notin DOMAIN files

\* no --path, and no regular file of the input directory has a supported
\* extension
EmptyRun ==
    /\ ~args.path.given
    /\ \A p \in DOMAIN files :
          Parent(p) = input_dir => Lower(Suffix(p)) \notin exts
UnderOutput(d) == Len(d) > Len(output_dir) /\ SubSeq(d, 1, Len(output_dir)) = output_dir

\* C6 as stated: an empty-input run constructs no pipeline and creates no
\* directory at all.
C6_NoDirectoryCreated ==
    [][EmptyRun => (dirs' = dirs /\ built' = built)]_vars

\* C6 amended: an empty-input run prints the informational messages and
\* returns without constructing a pipeline, starting a job or creating any
\* per-image output subdirectory; the only directories it may create are
\* the input and the output directory themselves.
C6_EmptyRun ==
    /\ [](EmptyRun =>
             /\ built = [shape |-> 0, paint |-> 0]
             /\ pipeline_shapegen = 0 /\ paint_pipeline = 0
             /\ pc \in {"start", "select", "done"}
             /\ \A d \in dirs : ~UnderOutput(d)
             /\ pc = "done" =>
                   log = <<Msg("INFO No images found in", Name(input_dir)),
                           Msg("INFO Put one or more images", <<>>)>>)
    /\ [][EmptyRun => dirs' \subseteq dirs \cup {input_dir, output_dir}]_vars

\* C6 witness: the run is over, the input directory held only a file with an
\* unsupported extension, and the output directory was created by the run.
C6_Witness ==
    /\ pc = "done"
    /\ EmptyRun
    /\ \E p \in DOMAIN files : Parent(p) = input_dir
    /\ output_dir \in dirs
    /\ Len(log) = 2

\* C7: when --path names something that is not an existing regular file, main
\* reports the error and returns: no scan of the input directory, no
\* pipeline construction, no job.
C7_MissingPathStops ==
    LET single == IF args.path.abs THEN args.path.parts
                  ELSE start_cwd \o args.path.parts
    IN  (args.path.given /\ single \notin DOMAIN files) =>
           /\ scans = 0
           /\ built = [shape |-> 0, paint |-> 0]
           /\ jobs = <<>>
           /\ pc \in {"start", "select", "done"}
           /\ pc = "done" => Len(log) = 1 /\ log[1].tag = "ERROR --path file not found"

LoopEntered == InLoop \/ (pc = "done" /\ jobs # <<>>)

\* C8 as stated: every run of main constructs each pipeline exactly once.
C8_OncePerRun ==
    pc = "done" => built = [shape |-> 1, paint |-> 1]

\* C8 amended: no run constructs a pipeline more than once; every run that
\* reaches the per-image loop has constructed each exactly once before the
\* first job, and no step of the loop constructs or rebinds a pipeline.
C8_OnceBeforeLoop ==
    /\ [](/\ built.shape <= 1 /\ built.paint <= 1
          /\ pipeline_shapegen = built.shape
          /\ paint_pipeline = built.paint
          /\ LoopEntered => built = [shape |-> 1, paint |-> 1])
    /\ [][InLoop => UNCHANGED <<built, pipeline_shapegen, paint_pipeline>>]_vars

\* C8 witness: a batch of at least two jobs has finished, each pipeline
\* having been constructed once.
C8_Witness ==
    /\ pc = "done"
    /\ Len(jobs) >= 2
    /\ \A i \in 1..Len(jobs) : jobs[i].attempts = 1
    /\ jobs[2].stage \in {"Accepted", "Renamed"}
    /\ built = [shape |-> 1, paint |-> 1]

Moves ==
    { <<"Pending", "BackgroundRemoved">>, <<"Pending", "ShapeGenerated">>,
      <<"BackgroundRemoved", "ShapeGenerated">>,
      <<"ShapeGenerated", "Painted">>,
      <<"Painted", "Accepted">>, <<"Painted", "Renamed">>,
      <<"Painted", "Warned">>,
      <<"Pending", "Failed">>, <<"BackgroundRemoved", "Failed">>,
      <<"ShapeGenerated", "Failed">>, <<"Painted", "Failed">> }

\* C9: per-job stage ordering. A job's stage changes only along Pending,
\* optional BackgroundRemoved, ShapeGenerated, Painted, then Accepted,
\* Renamed or Warned, or to Failed; paint runs only once this job's shape
\* mesh is on disk; verification runs only after paint returned; no job is
\* attempted twice; finished jobs are in exactly one final stage and jobs
\* not yet started are Pending.
C9_StageOrder ==
    /\ [](/\ pc = "paint" =>
                /\ jobs[idx].stage = "ShapeGenerated"
                /\ shape_glb(idx) \in DOMAIN files
                /\ files[shape_glb(idx)].writer = idx
          /\ pc = "verify" => jobs[idx].stage = "Painted"
          /\ \A i \in 1..Len(jobs) :
                /\ jobs[i].attempts <= 1
                /\ (i < idx \/ (i = idx /\ pc = "finally")) => jobs[i].stage \in Final
                /\ (i > idx \/ (i = idx /\ pc = "loop")) => jobs[i].stage = "Pending"
                /\ jobs[i].stage = "BackgroundRemoved" => args.remove_bg)
    /\ [][\A i \in 1..Len(jobs) :
             \/ jobs'[i].stage = jobs[i].stage
             \/ <<jobs[i].stage, jobs'[i].stage>> \in Moves]_vars

\* C9 witness: a finished batch in which one job failed, one was renamed and
\* one went through background removal to acceptance.
C9_Witness ==
    /\ pc = "done"
    /\ args.remove_bg
    /\ \E i, j, k \in 1..Len(jobs) :
          /\ jobs[i].stage = "Failed"
          /\ jobs[j].stage = "Renamed"
          /\ jobs[k].stage = "Accepted"

\* C10: output-directory dedication. No two images of a batch are given the
\* same output subdirectory or artifact paths, and no step of a job
\* overwrites, renames or removes a file written by an earlier job.
C10_DedicatedOutput ==
    /\ [](\A i, j \in 1..Len(images) :
             i # j => /\ per_item_dir(i) # per_item_dir(j)
                      /\ shape_glb(i) # shape_glb(j)
                      /\ out_glb_maybe(i) # out_glb_maybe(j)
                      /\ out_obj(i) # out_obj(j)
                      /\ bg_png(i) # bg_png(j))
    /\ [][\A q \in DOMAIN files :
             (files[q].writer # 0 /\ files[q].writer # idx) =>
                (q \in DOMAIN files' /\ files'[q] = files[q])]_vars

====
